---- MODULE Spec2Model ----
(***************************************************************************)
(* SSVM: a model of the embedding surface of the interpreter               *)
(* (lib/interpreter/interpreter.cpp), of the loader's parseModule           *)
(* (lib/loader/loader.cpp) and of the opcode factory                        *)
(* (include/common/ast/instruction.h).                                      *)
(*                                                                         *)
(* The store manager, the stack manager, instantiate() and runFunction()   *)
(* are not part of the sources at hand; they are modelled from the design  *)
(* document and marked as such where they are defined.                      *)
(***************************************************************************)
EXTENDS Integers, Sequences, FiniteSets, TLC

VARIABLES
    StoreMgr,   \* Runtime::StoreManager: the pools, the registry, the scratch counts
    StackMgr,   \* Interpreter::StackMgr: value stack and frame stack
    InsMode,    \* Interpreter::InsMode
    ObjModAddr, \* per import object: the module address its host functions hold
    LdrMgr,     \* Loader: what LMgr, FSMgr and FVMgr currently point at
    last        \* the most recent call at the embedding surface and its outcome

vars == <<StoreMgr, StackMgr, InsMode, ObjModAddr, LdrMgr, last>>

----------------------------------------------------------------------------
(* Bounds of the model.                                                    *)

\* Most host functions (and, in a Wasm module, defined functions) per module.
MaxFuncs == 1
\* Most arguments passed to invoke.
MaxArgs == 2

----------------------------------------------------------------------------
(* Values, types, names.                                                   *)

NoAddr == -1

ModNames == {"env", "wasi"}

ValTypes == <<"i32", "i64", "f32", "f64">>

\* The I-th value type, cycling through the four.
ValTypeAt(I) == ValTypes[((I - 1) % 4) + 1]

\* A function type with NP parameters and NR results.
MkFuncType(NP, NR) ==
    [Params |-> [I \in 1..NP |-> ValTypeAt(I)],
     Returns |-> [I \in 1..NR |-> ValTypeAt(I + 1)]]

\* Counts of tables, memories and globals an import object or module brings.
Profiles == {<<1, 0, 2>>, <<0, 1, 0>>}

ExportName(Kind, I) == <<Kind, I>>

\* Runtime::ImportObject: a module name and four keyed maps, here in key order.
\* The I-th host function takes I parameters and yields I + 1 results.
MkImportObject(Name, NF, Prof) ==
    [Name    |-> Name,
     Funcs   |-> [I \in 1..NF |-> [Key |-> ExportName("func", I),
                                    FuncType |-> MkFuncType(I, I + 1)]],
     Tables  |-> [I \in 1..Prof[1] |-> [Key |-> ExportName("table", I)]],
     Mems    |-> [I \in 1..Prof[2] |-> [Key |-> ExportName("memory", I)]],
     Globals |-> [I \in 1..Prof[3] |-> [Key |-> ExportName("global", I)]]]

ImportObjects ==
    {MkImportObject(N, NF, P) : N \in ModNames, NF \in 0..MaxFuncs, P \in Profiles}

----------------------------------------------------------------------------
(* Runtime::StoreManager and Runtime::Instance::ModuleInstance.            *)
(* Their sources are not at hand: modelled from the design document        *)
(* (sections 3 and 4.4). Addresses are 0-based: address A of a pool is its *)
(* element A + 1. The scratch region of a pool is its last Num* entries.   *)

EmptyStore ==
    [ModInsts |-> <<>>, FuncInsts |-> <<>>, TabInsts |-> <<>>,
     MemInsts |-> <<>>, GlobInsts |-> <<>>, ModMap |-> {},
     NumMod |-> 0, NumFunc |-> 0, NumTab |-> 0, NumMem |-> 0, NumGlob |-> 0]

DropLast(Pool, N) == SubSeq(Pool, 1, Len(Pool) - N)

\* reset(): clears the scratch region of pending instances.
reset(S) ==
    [S EXCEPT !.ModInsts = DropLast(S.ModInsts, S.NumMod),
              !.FuncInsts = DropLast(S.FuncInsts, S.NumFunc),
              !.TabInsts = DropLast(S.TabInsts, S.NumTab),
              !.MemInsts = DropLast(S.MemInsts, S.NumMem),
              !.GlobInsts = DropLast(S.GlobInsts, S.NumGlob),
              !.NumMod = 0, !.NumFunc = 0, !.NumTab = 0, !.NumMem = 0,
              !.NumGlob = 0]

\* findModule(name): the registry lookup; Found is FALSE when the name is absent.
findModule(S, Name) ==
    IF \E E \in S.ModMap : E[1] = Name
    THEN [Found |-> TRUE, Addr |-> (CHOOSE E \in S.ModMap : E[1] = Name)[2]]
    ELSE [Found |-> FALSE, Addr |-> NoAddr]

\* importModule(inst): appends to the module pool and enters the name in the
\* registry; the new address is the pool's former size.
importModule(S, ModInst) ==
    [Store |-> [S EXCEPT !.ModInsts = Append(@, ModInst),
                         !.ModMap = @ \cup {<<ModInst.Name, Len(S.ModInsts)>>}],
     Addr |-> Len(S.ModInsts)]

importHostFunction(S, Func) ==
    [Store |-> [S EXCEPT !.FuncInsts = Append(@, Func)], Addr |-> Len(S.FuncInsts)]

importHostTable(S, Tab) ==
    [Store |-> [S EXCEPT !.TabInsts = Append(@, Tab)], Addr |-> Len(S.TabInsts)]

importHostMemory(S, Mem) ==
    [Store |-> [S EXCEPT !.MemInsts = Append(@, Mem)], Addr |-> Len(S.MemInsts)]

importHostGlobal(S, Glob) ==
    [Store |-> [S EXCEPT !.GlobInsts = Append(@, Glob)], Addr |-> Len(S.GlobInsts)]

\* getFunction(addr): out of range is WrongInstanceAddress.
getFunction(S, Addr) ==
    IF Addr >= 0 /\ Addr < Len(S.FuncInsts)
    THEN [Ok |-> TRUE, Err |-> "Success", Inst |-> S.FuncInsts[Addr + 1]]
    ELSE [Ok |-> FALSE, Err |-> "WrongInstanceAddress", Inst |-> <<>>]

\* ModuleInstance(name): no addresses, no exports.
NewModuleInstance(Name) ==
    [Name |-> Name, FuncAddrs |-> <<>>, TabAddrs |-> <<>>, MemAddrs |-> <<>>,
     GlobAddrs |-> <<>>, ExpFuncs |-> {}, ExpTables |-> {}, ExpMems |-> {},
     ExpGlobals |-> {}]

\* An export map as a set of <<name, index>> pairs with one pair per name.
MapPut(Map, Key, Idx) == {E \in Map : E[1] # Key} \cup {<<Key, Idx>>}

addFuncAddr(M, Addr) == [M EXCEPT !.FuncAddrs = Append(@, Addr)]
addTableAddr(M, Addr) == [M EXCEPT !.TabAddrs = Append(@, Addr)]
addMemAddr(M, Addr) == [M EXCEPT !.MemAddrs = Append(@, Addr)]
addGlobalAddr(M, Addr) == [M EXCEPT !.GlobAddrs = Append(@, Addr)]

exportFuncion(M, Key, Idx) == [M EXCEPT !.ExpFuncs = MapPut(@, Key, Idx)]
exportTable(M, Key, Idx) == [M EXCEPT !.ExpTables = MapPut(@, Key, Idx)]
exportMemory(M, Key, Idx) == [M EXCEPT !.ExpMems = MapPut(@, Key, Idx)]
exportGlobal(M, Key, Idx) == [M EXCEPT !.ExpGlobals = MapPut(@, Key, Idx)]

getFuncNum(M) == Len(M.FuncAddrs)
getTableNum(M) == Len(M.TabAddrs)
getMemNum(M) == Len(M.MemAddrs)
getGlobalNum(M) == Len(M.GlobAddrs)

----------------------------------------------------------------------------
(* Interpreter::registerModule(StoreManager &, const ImportObject &).      *)

\* A name check that looks at the module registered last only.
registerNameConflict_LastOnly(S, Obj) ==
    /\ Len(S.ModInsts) > 0
    /\ S.ModInsts[Len(S.ModInsts)].Name = Obj.Name

\* The name check of registerModule: findModule on the import object's name.
registerNameConflict(S, Obj) == findModule(S, Obj.Name).Found

\* A round that exports the function under its store address instead of its
\* index in the module instance.
registerHostFunc_ExportsAddr(S, ModInstAddr, Entry) ==
    LET Func == [IsHost |-> TRUE, ModAddr |-> ModInstAddr,
                 FuncType |-> Entry.FuncType]
        Imp == importHostFunction(S, Func)
        M1 == addFuncAddr(Imp.Store.ModInsts[ModInstAddr + 1], Imp.Addr)
        M2 == exportFuncion(M1, Entry.Key, Imp.Addr)
    IN  [Imp.Store EXCEPT !.ModInsts[ModInstAddr + 1] = M2]

\* One round of the loop over Obj.getFuncs().
registerHostFunc(S, ModInstAddr, Entry) ==
    LET Func == [IsHost |-> TRUE, ModAddr |-> ModInstAddr,
                 FuncType |-> Entry.FuncType]
        Imp == importHostFunction(S, Func)
        M1 == addFuncAddr(Imp.Store.ModInsts[ModInstAddr + 1], Imp.Addr)
        M2 == exportFuncion(M1, Entry.Key, getFuncNum(M1) - 1)
    IN  [Imp.Store EXCEPT !.ModInsts[ModInstAddr + 1] = M2]

\* One round of the loop over Obj.getTables().
registerHostTable(S, ModInstAddr, Entry) ==
    LET Imp == importHostTable(S, [IsHost |-> TRUE, Key |-> Entry.Key])
        M1 == addTableAddr(Imp.Store.ModInsts[ModInstAddr + 1], Imp.Addr)
        M2 == exportTable(M1, Entry.Key, getTableNum(M1) - 1)
    IN  [Imp.Store EXCEPT !.ModInsts[ModInstAddr + 1] = M2]

\* One round of the loop over Obj.getMems().
registerHostMemory(S, ModInstAddr, Entry) ==
    LET Imp == importHostMemory(S, [IsHost |-> TRUE, Key |-> Entry.Key])
        M1 == addMemAddr(Imp.Store.ModInsts[ModInstAddr + 1], Imp.Addr)
        M2 == exportMemory(M1, Entry.Key, getMemNum(M1) - 1)
    IN  [Imp.Store EXCEPT !.ModInsts[ModInstAddr + 1] = M2]

\* One round of the loop over Obj.getGlobals().
registerHostGlobal(S, ModInstAddr, Entry) ==
    LET Imp == importHostGlobal(S, [IsHost |-> TRUE, Key |-> Entry.Key])
        M1 == addGlobalAddr(Imp.Store.ModInsts[ModInstAddr + 1], Imp.Addr)
        M2 == exportGlobal(M1, Entry.Key, getGlobalNum(M1) - 1)
    IN  [Imp.Store EXCEPT !.ModInsts[ModInstAddr + 1] = M2]

RECURSIVE registerFuncs(_, _, _, _)
registerFuncs(S, A, Entries, I) ==
    IF I > Len(Entries) THEN S
    ELSE registerFuncs(registerHostFunc(S, A, Entries[I]), A, Entries, I + 1)

RECURSIVE registerTables(_, _, _, _)
registerTables(S, A, Entries, I) ==
    IF I > Len(Entries) THEN S
    ELSE registerTables(registerHostTable(S, A, Entries[I]), A, Entries, I + 1)

RECURSIVE registerMems(_, _, _, _)
registerMems(S, A, Entries, I) ==
    IF I > Len(Entries) THEN S
    ELSE registerMems(registerHostMemory(S, A, Entries[I]), A, Entries, I + 1)

RECURSIVE registerGlobals(_, _, _, _)
registerGlobals(S, A, Entries, I) ==
    IF I > Len(Entries) THEN S
    ELSE registerGlobals(registerHostGlobal(S, A, Entries[I]), A, Entries, I + 1)

\* The store after the whole body of registerModule past the name check.
registerImportObject(S, Obj) ==
    LET Imp == importModule(S, NewModuleInstance(Obj.Name))
        S1 == registerFuncs(Imp.Store, Imp.Addr, Obj.Funcs, 1)
        S2 == registerTables(S1, Imp.Addr, Obj.Tables, 1)
        S3 == registerMems(S2, Imp.Addr, Obj.Mems, 1)
    IN  registerGlobals(S3, Imp.Addr, Obj.Globals, 1)

\* A registerModule that looks for the name only after it has imported the
\* module and its instances.
registerModule_CheckLast(Obj) ==
    LET S0 == reset(StoreMgr)
    IN  /\ StoreMgr' = registerImportObject(S0, Obj)
        /\ ObjModAddr' =
               IF Len(Obj.Funcs) > 0
               THEN [ObjModAddr EXCEPT ![Obj] = Len(S0.ModInsts)]
               ELSE ObjModAddr
        /\ last' = [op |-> "registerModule", Name |-> Obj.Name,
                    pending |-> StoreMgr.NumMod > 0,
                    err |-> IF registerNameConflict(S0, Obj)
                            THEN "ModuleNameConflict" ELSE "Success",
                    logs |-> IF registerNameConflict(S0, Obj) THEN 1 ELSE 0]

\* pending records whether the scratch region held a module at the call.
registerModule(Obj) ==
    LET S0 == reset(StoreMgr)
    IN  IF registerNameConflict(S0, Obj)
        THEN /\ StoreMgr' = S0
             /\ ObjModAddr' = ObjModAddr
             /\ last' = [op |-> "registerModule", Name |-> Obj.Name,
                         pending |-> StoreMgr.NumMod > 0,
                         err |-> "ModuleNameConflict", logs |-> 1]
        ELSE /\ StoreMgr' = registerImportObject(S0, Obj)
             /\ ObjModAddr' =
                    IF Len(Obj.Funcs) > 0
                    THEN [ObjModAddr EXCEPT ![Obj] = Len(S0.ModInsts)]
                    ELSE ObjModAddr
             /\ last' = [op |-> "registerModule", Name |-> Obj.Name,
                         pending |-> StoreMgr.NumMod > 0,
                         err |-> "Success", logs |-> 0]

----------------------------------------------------------------------------
(* Interpreter::instantiate(StoreManager &, const AST::Module &, name).    *)
(* Its source is not at hand: modelled from the design document (sections  *)
(* 4.4, 4.5 and 7). What a call allocates goes to the scratch region; a     *)
(* failure after allocation clears it again.                                *)

\* AST::Module: NF defined functions, one table, one memory, one global.
\* The J-th defined function takes J - 1 parameters and yields J - 1 results.
MkModule(NF) == [Funcs |-> [J \in 1..NF |-> MkFuncType(J - 1, J - 1)]]

Modules == {MkModule(NF) : NF \in 0..MaxFuncs}

\* Where an instantiation fails: nowhere, at import resolution (before any
\* allocation) or at segment initialisation (after it).
FailPoints == {"Success", "UnknownImport", "AccessForbidMemoryArea"}

\* Step 2 of instantiation: the module instance and its instances, all pending.
allocate(S, Mod, Name) ==
    LET A == Len(S.ModInsts)
        NF == Len(Mod.Funcs)
        M == [NewModuleInstance(Name) EXCEPT
                 !.FuncAddrs = [J \in 1..NF |-> Len(S.FuncInsts) + J - 1],
                 !.TabAddrs = <<Len(S.TabInsts)>>,
                 !.MemAddrs = <<Len(S.MemInsts)>>,
                 !.GlobAddrs = <<Len(S.GlobInsts)>>,
                 !.ExpFuncs = {<<ExportName("func", J), J - 1>> : J \in 1..NF}]
    IN  [S EXCEPT
            !.ModInsts = Append(@, M),
            !.FuncInsts = @ \o [J \in 1..NF |->
                                   [IsHost |-> FALSE, ModAddr |-> A,
                                    FuncType |-> Mod.Funcs[J]]],
            !.TabInsts = Append(@, [IsHost |-> FALSE, Key |-> Name]),
            !.MemInsts = Append(@, [IsHost |-> FALSE, Key |-> Name]),
            !.GlobInsts = Append(@, [IsHost |-> FALSE, Key |-> Name]),
            !.NumMod = @ + 1, !.NumFunc = @ + NF, !.NumTab = @ + 1,
            !.NumMem = @ + 1, !.NumGlob = @ + 1]

\* A registered Wasm module leaves the scratch region and enters the registry.
commit(S, Name) ==
    [S EXCEPT !.ModMap = @ \cup {<<Name, Len(S.ModInsts) - 1>>},
              !.NumMod = 0, !.NumFunc = 0, !.NumTab = 0, !.NumMem = 0,
              !.NumGlob = 0]

\* An instantiation that leaves what it allocated in the pools when it fails.
instantiate_NoRollback(S, Mod, Name, Mode, Fail) ==
    LET S0 == reset(S)
        S1 == allocate(S0, Mod, Name)
    IN  IF findModule(S0, Name).Found
        THEN [Ok |-> FALSE, Err |-> "ModuleNameConflict", Store |-> S0, Added |-> 0]
        ELSE IF Fail = "UnknownImport"
        THEN [Ok |-> FALSE, Err |-> Fail, Store |-> S0, Added |-> 0]
        ELSE IF Fail # "Success"
        THEN [Ok |-> FALSE, Err |-> Fail, Store |-> S1,
              Added |-> Len(Mod.Funcs) + 4]
        ELSE [Ok |-> TRUE, Err |-> "Success",
              Store |-> IF Mode = "ImportWasm" THEN commit(S1, Name) ELSE S1,
              Added |-> Len(Mod.Funcs) + 4]

instantiate(S, Mod, Name, Mode, Fail) ==
    LET S0 == reset(S)
        S1 == allocate(S0, Mod, Name)
    IN  IF findModule(S0, Name).Found
        THEN [Ok |-> FALSE, Err |-> "ModuleNameConflict", Store |-> S0, Added |-> 0]
        ELSE IF Fail = "UnknownImport"
        THEN [Ok |-> FALSE, Err |-> Fail, Store |-> S0, Added |-> 0]
        ELSE IF Fail # "Success"
        THEN [Ok |-> FALSE, Err |-> Fail, Store |-> reset(S1),
              Added |-> Len(Mod.Funcs) + 4]
        ELSE [Ok |-> TRUE, Err |-> "Success",
              Store |-> IF Mode = "ImportWasm" THEN commit(S1, Name) ELSE S1,
              Added |-> Len(Mod.Funcs) + 4]

----------------------------------------------------------------------------
(* Interpreter::instantiateModule and                                      *)
(* Interpreter::registerModule(StoreManager &, const AST::Module &, name). *)

instantiateModule(Mod, Name, Fail) ==
    LET Res == instantiate(StoreMgr, Mod, Name, "Instantiate", Fail)
    IN  /\ InsMode' = "Instantiate"
        /\ StoreMgr' = Res.Store
        /\ last' = [op |-> "instantiateModule", Name |-> Name, err |-> Res.Err,
                    logs |-> IF Res.Ok THEN 0 ELSE 1, added |-> Res.Added]

registerModuleWasm(Mod, Name, Fail) ==
    LET Res == instantiate(StoreMgr, Mod, Name, "ImportWasm", Fail)
    IN  /\ InsMode' = "ImportWasm"
        /\ StoreMgr' = Res.Store
        /\ last' = [op |-> "registerModuleWasm", Name |-> Name, err |-> Res.Err,
                    logs |-> IF Res.Ok THEN 0 ELSE 1, added |-> Res.Added]

----------------------------------------------------------------------------
(* Interpreter::runFunction and the stack manager.                         *)
(* Their sources are not at hand: modelled from the design document        *)
(* (sections 4.6 and 7).                                                   *)

RECURSIVE SumSeq(_)
SumSeq(Q) == IF Q = <<>> THEN 0 ELSE Head(Q) + SumSeq(Tail(Q))

\* What the callee computes: as many values as its type has results, each
\* depending on the arguments and on its place among the results.
CalleeResults(Func, Params) ==
    [I \in 1..Len(Func.FuncType.Returns) |->
        SumSeq([J \in 1..Len(Params) |-> Params[J].Val]) + I]

EmptyStack == [Vals |-> <<>>, Frames |-> <<>>]

\* A runFunction that returns from a trap with the stacks as the trap left them.
runFunction_NoUnwind(Stk, Func, Params, Traps) ==
    LET Entered == [Vals |-> Stk.Vals,
                    Frames |-> Append(Stk.Frames,
                                      [ModAddr |-> Func.ModAddr, Locals |-> Params,
                                       Arity |-> Len(Func.FuncType.Returns),
                                       Base |-> Len(Stk.Vals)])]
        AtTrap == [Entered EXCEPT !.Vals = @ \o Params \o <<0>>]
        Exited == [Vals |-> Stk.Vals \o CalleeResults(Func, Params),
                   Frames |-> Stk.Frames]
    IN  IF Traps
        THEN [Ok |-> FALSE, Err |-> "ExecutionFailed", Stack |-> AtTrap]
        ELSE [Ok |-> TRUE, Err |-> "Success", Stack |-> Exited]

runFunction(Stk, Func, Params, Traps) ==
    LET \* Entering: the arguments become the locals of a new frame.
        Entered == [Vals |-> Stk.Vals,
                    Frames |-> Append(Stk.Frames,
                                      [ModAddr |-> Func.ModAddr, Locals |-> Params,
                                       Arity |-> Len(Func.FuncType.Returns),
                                       Base |-> Len(Stk.Vals)])]
        \* A trap strikes with intermediate values on the value stack.
        AtTrap == [Entered EXCEPT !.Vals = @ \o Params \o <<0>>]
        \* Unwinding goes back to the stacks of the invocation entry.
        Unwound == [Vals |-> SubSeq(AtTrap.Vals, 1, Len(Stk.Vals)),
                    Frames |-> SubSeq(AtTrap.Frames, 1, Len(Stk.Frames))]
        \* Exiting: the frame is popped, the results stay above its base.
        Exited == [Vals |-> Stk.Vals \o CalleeResults(Func, Params),
                   Frames |-> Stk.Frames]
    IN  IF Traps
        THEN [Ok |-> FALSE, Err |-> "ExecutionFailed", Stack |-> Unwound]
        ELSE [Ok |-> TRUE, Err |-> "Success", Stack |-> Exited]

----------------------------------------------------------------------------
(* Interpreter::invoke.                                                    *)

\* The arguments of a call are ValVariants: a value with the value type it
\* holds. N values, different for every N, of the value types MkFuncType
\* gives N parameters.
MkArgs(N) == [I \in 1..N |-> [Type |-> ValTypeAt(I), Val |-> 10 * N + I]]

\* N values, all of one value type.
MkArgsOf(N, Type) == [I \in 1..N |-> [Type |-> Type, Val |-> 10 * N + I]]

ArgLists ==
    {MkArgs(N) : N \in 0..MaxArgs} \cup {MkArgsOf(N, "f64") : N \in 1..MaxArgs}

\* A failure of getFunction reported under the code of the next check.
invokeAddrError_SigMismatch(Res) == "FuncSigMismatch"

\* The error invoke returns when getFunction fails: the one getFunction gave.
invokeAddrError(Res) == Res.Err

\* A check that rejects too few arguments only.
invokeSigMismatch_TooFewOnly(FuncType, Params) == Len(Params) < Len(FuncType.Params)

\* A check that compares the value types of the arguments with the parameter
\* types as well.
invokeSigMismatch_Typed(FuncType, Params) ==
    \/ Len(FuncType.Params) # Len(Params)
    \/ \E I \in 1..Len(Params) : Params[I].Type # FuncType.Params[I]

\* The check of the parameters against the function type: the counts only.
invokeSigMismatch(FuncType, Params) == Len(FuncType.Params) # Len(Params)

\* The return values in the order they were popped.
invokeReturns_NoReverse(Vals, N) == [I \in 1..N |-> Vals[Len(Vals) - I + 1]]

\* The return values: N pops off the value stack, then reversed.
invokeReturns(Vals, N) ==
    LET Popped == [I \in 1..N |-> Vals[Len(Vals) - I + 1]]
    IN  [I \in 1..N |-> Popped[N - I + 1]]

\* A value stack read at its top without being popped.
invokePopped_Peek(Vals, N) == Vals

\* The value stack after the N pops of the return values.
invokePopped(Vals, N) == SubSeq(Vals, 1, Len(Vals) - N)

invoke(FuncAddr, Params, Traps) ==
    LET Res == getFunction(StoreMgr, FuncAddr)
        FuncInst == Res.Inst
        FuncType == FuncInst.FuncType
        Run == runFunction(StackMgr, FuncInst, Params, Traps)
        N == Len(FuncType.Returns)
        Call == [op |-> "invoke", FuncAddr |-> FuncAddr, Params |-> Params,
                 afterTrap |-> last.op = "invoke" /\ last.err = "ExecutionFailed"]
    IN  IF ~Res.Ok
        THEN /\ StackMgr' = StackMgr
             /\ last' = Call @@ [err |-> invokeAddrError(Res), Returns |-> <<>>,
                                 logs |-> 1, steps |-> <<"getFunction">>]
        ELSE IF invokeSigMismatch(FuncType, Params)
        THEN /\ StackMgr' = StackMgr
             /\ last' = Call @@ [err |-> "FuncSigMismatch", Returns |-> <<>>,
                                 logs |-> 1,
                                 steps |-> <<"getFunction", "checkParams">>]
        ELSE IF ~Run.Ok
        THEN /\ StackMgr' = Run.Stack
             /\ last' = Call @@ [err |-> Run.Err, Returns |-> <<>>, logs |-> 1,
                                 steps |-> <<"getFunction", "checkParams", "runFunction">>]
        ELSE /\ StackMgr' = [Run.Stack EXCEPT !.Vals = invokePopped(@, N)]
             /\ last' = Call @@ [err |-> "Success",
                                 Returns |-> invokeReturns(Run.Stack.Vals, N),
                                 logs |-> 0,
                                 steps |-> <<"getFunction", "checkParams", "runFunction">>]

----------------------------------------------------------------------------
(* AST::Instruction::OpCode, dispatchInstruction and makeInstructionNode.  *)

\* The opcode bytes: OpCode is an enumeration over uint8_t.
MaxByte == 255
Bytes == 0..MaxByte

\* Instruction::OpCode, name by name and value by value.
OpCode ==
    [Unreachable |-> \H00, Nop |-> \H01, Block |-> \H02, Loop |-> \H03,
     If |-> \H04, Else |-> \H05, End |-> \H0B, Br |-> \H0C, Br_if |-> \H0D,
     Br_table |-> \H0E, Return |-> \H0F, Call |-> \H10,
     Call_indirect |-> \H11, Drop |-> \H1A, Select |-> \H1B,
     Local__get |-> \H20, Local__set |-> \H21, Local__tee |-> \H22,
     Global__get |-> \H23, Global__set |-> \H24, I32__load |-> \H28,
     I64__load |-> \H29, F32__load |-> \H2A, F64__load |-> \H2B,
     I32__load8_s |-> \H2C, I32__load8_u |-> \H2D, I32__load16_s |-> \H2E,
     I32__load16_u |-> \H2F, I64__load8_s |-> \H30, I64__load8_u |-> \H31,
     I64__load16_s |-> \H32, I64__load16_u |-> \H33, I64__load32_s |-> \H34,
     I64__load32_u |-> \H35, I32__store |-> \H36, I64__store |-> \H37,
     F32__store |-> \H38, F64__store |-> \H39, I32__store8 |-> \H3A,
     I32__store16 |-> \H3B, I64__store8 |-> \H3C, I64__store16 |-> \H3D,
     I64__store32 |-> \H3E, Memory__size |-> \H3F, Memory__grow |-> \H40,
     I32__const |-> \H41, I64__const |-> \H42, F32__const |-> \H43,
     F64__const |-> \H44, I32__eqz |-> \H45, I32__eq |-> \H46,
     I32__ne |-> \H47, I32__lt_s |-> \H48, I32__lt_u |-> \H49,
     I32__gt_s |-> \H4A, I32__gt_u |-> \H4B, I32__le_s |-> \H4C,
     I32__le_u |-> \H4D, I32__ge_s |-> \H4E, I32__ge_u |-> \H4F,
     I64__eqz |-> \H50, I64__eq |-> \H51, I64__ne |-> \H52,
     I64__lt_s |-> \H53, I64__lt_u |-> \H54, I64__gt_s |-> \H55,
     I64__gt_u |-> \H56, I64__le_s |-> \H57, I64__le_u |-> \H58,
     I64__ge_s |-> \H59, I64__ge_u |-> \H5A, F32__eq |-> \H5B,
     F32__ne |-> \H5C, F32__lt |-> \H5D, F32__gt |-> \H5E, F32__le |-> \H5F,
     F32__ge |-> \H60, F64__eq |-> \H61, F64__ne |-> \H62, F64__lt |-> \H63,
     F64__gt |-> \H64, F64__le |-> \H65, F64__ge |-> \H66, I32__clz |-> \H67,
     I32__ctz |-> \H68, I32__popcnt |-> \H69, I32__add |-> \H6A,
     I32__sub |-> \H6B, I32__mul |-> \H6C, I32__div_s |-> \H6D,
     I32__div_u |-> \H6E, I32__rem_s |-> \H6F, I32__rem_u |-> \H70,
     I32__and |-> \H71, I32__or |-> \H72, I32__xor |-> \H73,
     I32__shl |-> \H74, I32__shr_s |-> \H75, I32__shr_u |-> \H76,
     I32__rotl |-> \H77, I32__rotr |-> \H78, I64__clz |-> \H79,
     I64__ctz |-> \H7A, I64__popcnt |-> \H7B, I64__add |-> \H7C,
     I64__sub |-> \H7D, I64__mul |-> \H7E, I64__div_s |-> \H7F,
     I64__div_u |-> \H80, I64__rem_s |-> \H81, I64__rem_u |-> \H82,
     I64__and |-> \H83, I64__or |-> \H84, I64__xor |-> \H85,
     I64__shl |-> \H86, I64__shr_s |-> \H87, I64__shr_u |-> \H88,
     I64__rotl |-> \H89, I64__rotr |-> \H8A, F32__abs |-> \H8B,
     F32__neg |-> \H8C, F32__ceil |-> \H8D, F32__floor |-> \H8E,
     F32__trunc |-> \H8F, F32__nearest |-> \H90, F32__sqrt |-> \H91,
     F32__add |-> \H92, F32__sub |-> \H93, F32__mul |-> \H94,
     F32__div |-> \H95, F32__min |-> \H96, F32__max |-> \H97,
     F32__copysign |-> \H98, F64__abs |-> \H99, F64__neg |-> \H9A,
     F64__ceil |-> \H9B, F64__floor |-> \H9C, F64__trunc |-> \H9D,
     F64__nearest |-> \H9E, F64__sqrt |-> \H9F, F64__add |-> \HA0,
     F64__sub |-> \HA1, F64__mul |-> \HA2, F64__div |-> \HA3,
     F64__min |-> \HA4, F64__max |-> \HA5, F64__copysign |-> \HA6,
     I32__wrap_i64 |-> \HA7, I32__trunc_f32_s |-> \HA8,
     I32__trunc_f32_u |-> \HA9, I32__trunc_f64_s |-> \HAA,
     I32__trunc_f64_u |-> \HAB, I64__extend_i32_s |-> \HAC,
     I64__extend_i32_u |-> \HAD, I64__trunc_f32_s |-> \HAE,
     I64__trunc_f32_u |-> \HAF, I64__trunc_f64_s |-> \HB0,
     I64__trunc_f64_u |-> \HB1, F32__convert_i32_s |-> \HB2,
     F32__convert_i32_u |-> \HB3, F32__convert_i64_s |-> \HB4,
     F32__convert_i64_u |-> \HB5, F32__demote_f64 |-> \HB6,
     F64__convert_i32_s |-> \HB7, F64__convert_i32_u |-> \HB8,
     F64__convert_i64_s |-> \HB9, F64__convert_i64_u |-> \HBA,
     F64__promote_f32 |-> \HBB, I32__reinterpret_f32 |-> \HBC,
     I64__reinterpret_f64 |-> \HBD, F32__reinterpret_i32 |-> \HBE,
     F64__reinterpret_i64 |-> \HBF]

\* The case labels of the switch of dispatchInstruction, one set per return.
\* Case labels that take End and Else for control instructions.
CasesControlInstruction_WithEnd ==
    {OpCode.Unreachable, OpCode.Nop, OpCode.Return, OpCode.End, OpCode.Else}

CasesControlInstruction ==
    {OpCode.Unreachable, OpCode.Nop, OpCode.Return}

CasesBlockControlInstruction ==
    {OpCode.Block, OpCode.Loop}

CasesIfElseControlInstruction ==
    {OpCode.If}

CasesBrControlInstruction ==
    {OpCode.Br, OpCode.Br_if}

CasesBrTableControlInstruction ==
    {OpCode.Br_table}

CasesCallControlInstruction ==
    {OpCode.Call, OpCode.Call_indirect}

CasesParametricInstruction ==
    {OpCode.Drop, OpCode.Select}

CasesVariableInstruction ==
    {OpCode.Local__get, OpCode.Local__set, OpCode.Local__tee,
     OpCode.Global__get, OpCode.Global__set}

\* The memory case labels with Memory__grow forgotten.
CasesMemoryInstruction_NoGrow ==
    {Code \in Bytes : OpCode.I32__load <= Code /\ Code <= OpCode.Memory__size}

CasesMemoryInstruction ==
    {OpCode.I32__load, OpCode.I64__load, OpCode.F32__load, OpCode.F64__load,
     OpCode.I32__load8_s, OpCode.I32__load8_u, OpCode.I32__load16_s,
     OpCode.I32__load16_u, OpCode.I64__load8_s, OpCode.I64__load8_u,
     OpCode.I64__load16_s, OpCode.I64__load16_u, OpCode.I64__load32_s,
     OpCode.I64__load32_u, OpCode.I32__store, OpCode.I64__store,
     OpCode.F32__store, OpCode.F64__store, OpCode.I32__store8,
     OpCode.I32__store16, OpCode.I64__store8, OpCode.I64__store16,
     OpCode.I64__store32, OpCode.Memory__size, OpCode.Memory__grow}

CasesConstInstruction ==
    {OpCode.I32__const, OpCode.I64__const, OpCode.F32__const,
     OpCode.F64__const}

CasesUnaryNumericInstruction ==
    {OpCode.I32__eqz, OpCode.I32__clz, OpCode.I32__ctz, OpCode.I32__popcnt,
     OpCode.I64__eqz, OpCode.I64__clz, OpCode.I64__ctz, OpCode.I64__popcnt,
     OpCode.F32__abs, OpCode.F32__neg, OpCode.F32__ceil, OpCode.F32__floor,
     OpCode.F32__trunc, OpCode.F32__nearest, OpCode.F32__sqrt,
     OpCode.F64__abs, OpCode.F64__neg, OpCode.F64__ceil, OpCode.F64__floor,
     OpCode.F64__trunc, OpCode.F64__nearest, OpCode.F64__sqrt,
     OpCode.I32__wrap_i64, OpCode.I32__trunc_f32_s, OpCode.I32__trunc_f32_u,
     OpCode.I32__trunc_f64_s, OpCode.I32__trunc_f64_u,
     OpCode.I64__extend_i32_s, OpCode.I64__extend_i32_u,
     OpCode.I64__trunc_f32_s, OpCode.I64__trunc_f32_u,
     OpCode.I64__trunc_f64_s, OpCode.I64__trunc_f64_u,
     OpCode.F32__convert_i32_s, OpCode.F32__convert_i32_u,
     OpCode.F32__convert_i64_s, OpCode.F32__convert_i64_u,
     OpCode.F32__demote_f64, OpCode.F64__convert_i32_s,
     OpCode.F64__convert_i32_u, OpCode.F64__convert_i64_s,
     OpCode.F64__convert_i64_u, OpCode.F64__promote_f32,
     OpCode.I32__reinterpret_f32, OpCode.I64__reinterpret_f64,
     OpCode.F32__reinterpret_i32, OpCode.F64__reinterpret_i64}

CasesBinaryNumericInstruction ==
    {OpCode.I32__eq, OpCode.I32__ne, OpCode.I32__lt_s, OpCode.I32__lt_u,
     OpCode.I32__gt_s, OpCode.I32__gt_u, OpCode.I32__le_s, OpCode.I32__le_u,
     OpCode.I32__ge_s, OpCode.I32__ge_u, OpCode.I64__eq, OpCode.I64__ne,
     OpCode.I64__lt_s, OpCode.I64__lt_u, OpCode.I64__gt_s, OpCode.I64__gt_u,
     OpCode.I64__le_s, OpCode.I64__le_u, OpCode.I64__ge_s, OpCode.I64__ge_u,
     OpCode.F32__eq, OpCode.F32__ne, OpCode.F32__lt, OpCode.F32__gt,
     OpCode.F32__le, OpCode.F32__ge, OpCode.F64__eq, OpCode.F64__ne,
     OpCode.F64__lt, OpCode.F64__gt, OpCode.F64__le, OpCode.F64__ge,
     OpCode.I32__add, OpCode.I32__sub, OpCode.I32__mul, OpCode.I32__div_s,
     OpCode.I32__div_u, OpCode.I32__rem_s, OpCode.I32__rem_u,
     OpCode.I32__and, OpCode.I32__or, OpCode.I32__xor, OpCode.I32__shl,
     OpCode.I32__shr_s, OpCode.I32__shr_u, OpCode.I32__rotl,
     OpCode.I32__rotr, OpCode.I64__add, OpCode.I64__sub, OpCode.I64__mul,
     OpCode.I64__div_s, OpCode.I64__div_u, OpCode.I64__rem_s,
     OpCode.I64__rem_u, OpCode.I64__and, OpCode.I64__or, OpCode.I64__xor,
     OpCode.I64__shl, OpCode.I64__shr_s, OpCode.I64__shr_u, OpCode.I64__rotl,
     OpCode.I64__rotr, OpCode.F32__add, OpCode.F32__sub, OpCode.F32__mul,
     OpCode.F32__div, OpCode.F32__min, OpCode.F32__max, OpCode.F32__copysign,
     OpCode.F64__add, OpCode.F64__sub, OpCode.F64__mul, OpCode.F64__div,
     OpCode.F64__min, OpCode.F64__max, OpCode.F64__copysign}

\* The switch of dispatchInstruction: the tag handed to the visitor.
dispatchInstruction(Code) ==
    CASE Code \in CasesControlInstruction -> "ControlInstruction"
      [] Code \in CasesBlockControlInstruction -> "BlockControlInstruction"
      [] Code \in CasesIfElseControlInstruction -> "IfElseControlInstruction"
      [] Code \in CasesBrControlInstruction -> "BrControlInstruction"
      [] Code \in CasesBrTableControlInstruction -> "BrTableControlInstruction"
      [] Code \in CasesCallControlInstruction -> "CallControlInstruction"
      [] Code \in CasesParametricInstruction -> "ParametricInstruction"
      [] Code \in CasesVariableInstruction -> "VariableInstruction"
      [] Code \in CasesMemoryInstruction -> "MemoryInstruction"
      [] Code \in CasesConstInstruction -> "ConstInstruction"
      [] Code \in CasesUnaryNumericInstruction -> "UnaryNumericInstruction"
      [] Code \in CasesBinaryNumericInstruction -> "BinaryNumericInstruction"
      [] OTHER -> "void"

\* makeInstructionNode(Code): the definition is not at hand, only its
\* declaration; modelled from the design document (section 4.2): the void tag
\* makes no node and fails with InvalidOpCode, any other tag makes its node.
makeInstructionNode(Code) ==
    LET Tag == dispatchInstruction(Code)
    IN  IF Tag = "void"
        THEN [Ok |-> FALSE, Err |-> "InvalidOpCode", Node |-> <<>>]
        ELSE [Ok |-> TRUE, Err |-> "Success",
              Node |-> [Class |-> Tag, Code |-> Code]]

\* One decoding step: an opcode byte is handed to makeInstructionNode.
decodeOpCode(Code) ==
    LET Res == makeInstructionNode(Code)
    IN  last' = [op |-> "makeInstructionNode", Code |-> Code,
                 tag |-> dispatchInstruction(Code), err |-> Res.Err,
                 Node |-> Res.Node, logs |-> 0]

----------------------------------------------------------------------------
(* The loader's collaborators: LDMgr, FileMgrFStream, FileMgrVector and    *)
(* AST::Module's loadBinary and loadCompiled. Their sources are not at     *)
(* hand: each is modelled by its outcome on the file or byte vector given, *)
(* loadBinary from the design document (section 4.2).                      *)

\* The version string of the runtime (common/version.h).
kVersion == "kVersion"

WasmMagic == <<0, 97, 115, 109>>
WasmVersion == <<1, 0, 0, 0>>

\* Byte vectors: a module of magic and version alone, a wrong magic, a wrong
\* version, a vector cut inside the magic.
Codes ==
    {WasmMagic \o WasmVersion, <<0, 97, 115, 110>> \o WasmVersion,
     WasmMagic \o <<2, 0, 0, 0>>, <<0, 97, 115>>}

\* Module::loadBinary on a byte source holding Code.
loadBinary(Code) ==
    IF Len(Code) < 4 THEN [Ok |-> FALSE, Err |-> "EndOfFile"]
    ELSE IF SubSeq(Code, 1, 4) # WasmMagic THEN [Ok |-> FALSE, Err |-> "InvalidGrammar"]
    ELSE IF Len(Code) < 8 THEN [Ok |-> FALSE, Err |-> "EndOfFile"]
    ELSE IF SubSeq(Code, 5, 8) # WasmVersion THEN [Ok |-> FALSE, Err |-> "InvalidVersion"]
    ELSE [Ok |-> TRUE, Err |-> "Success"]

Good(V) == [Ok |-> TRUE, Err |-> "Success", Val |-> V]
Bad(E) == [Ok |-> FALSE, Err |-> E, Val |-> <<>>]

\* What a path leads to: nothing that opens, a compiled module (its version
\* string, its embedded Wasm payload, whether its symbols load), or a file of
\* bytes.
Files ==
    {[Opens |-> FALSE, Kind |-> "none"]}
    \cup {[Opens |-> TRUE, Kind |-> "so", Version |-> V, Wasm |-> W, Compiled |-> C] :
            V \in {Good(kVersion), Good("other"), Bad("InvalidGrammar")},
            W \in {Good(Code) : Code \in Codes} \cup {Bad("InvalidGrammar")},
            C \in {Good(<<>>), Bad("InvalidGrammar")}}
    \cup {[Opens |-> TRUE, Kind |-> "wasm", Data |-> Code] : Code \in Codes}

\* The bytes a file manager reads from the file.
FileData(File) == IF File.Kind = "wasm" THEN File.Data ELSE <<127, 69, 76, 70>>

LMgr_setPath(File) ==
    IF File.Opens /\ File.Kind = "so" THEN Good(<<>>) ELSE Bad("InvalidPath")
LMgr_getVersion(File) == File.Version
LMgr_getWasm(File) == File.Wasm
loadCompiled(File) == File.Compiled
FSMgr_setPath(File) == IF File.Opens THEN Good(<<>>) ELSE Bad("InvalidPath")

\* A file manager: the bytes of the file it reads and the number of them
\* it has read. NoFile is a manager no path was set on.
NoFile == [Data |-> <<>>, Pos |-> 0]

\* The manager after a setPath that succeeded: at the start of the file.
FSMgr_open(File) == [Data |-> FileData(File), Pos |-> 0]

\* The bytes the manager has not read yet.
FSMgr_rest(Mgr) == SubSeq(Mgr.Data, Mgr.Pos + 1, Len(Mgr.Data))

\* The number of bytes loadBinary reads from a source holding Code: the
\* magic, then the version; a read past the end takes what is left.
loadBinaryConsumed(Code) ==
    IF Len(Code) < 4 THEN Len(Code)
    ELSE IF SubSeq(Code, 1, 4) # WasmMagic THEN 4
    ELSE IF Len(Code) < 8 THEN Len(Code)
    ELSE 8

\* Module::loadBinary on a file manager: it reads on from where the manager
\* stands. Read are the bytes taken.
FSMgr_loadBinary(Mgr) ==
    LET Code == FSMgr_rest(Mgr)
        N == loadBinaryConsumed(Code)
    IN  [Res |-> loadBinary(Code), Read |-> SubSeq(Code, 1, N),
         Mgr |-> [Mgr EXCEPT !.Pos = @ + N]]
FVMgr_setCode(Code) == Good(<<>>)

----------------------------------------------------------------------------
(* Loader::parseModule, both overloads, and endsWith.                      *)

\* Paths, character by character.
SoSuffix == <<".", "s", "o">>

PathNames ==
    {<<"m", ".", "s", "o">>, <<"m", ".", "w", "a", "s", "m">>, <<"s", "o">>,
     <<".", "s", "o">>, <<"m", ".", "s", "o", "x">>}

endsWith(String, Suffix) ==
    /\ Len(String) >= Len(Suffix)
    /\ SubSeq(String, Len(String) - Len(Suffix) + 1, Len(String)) = Suffix

NoModule == [Loaded |-> FALSE]

\* The outcome of a parse: the Expect, what was logged, the steps taken.
ParseFail(Ldr, Err, Logs, Steps) ==
    [Ok |-> FALSE, Err |-> Err, Mod |-> NoModule, logs |-> Logs, steps |-> Steps,
     Ldr |-> Ldr]
ParseDone(Ldr, Mod, Logs, Steps) ==
    [Ok |-> TRUE, Err |-> "Success", Mod |-> Mod, logs |-> Logs, steps |-> Steps,
     Ldr |-> Ldr]

\* Loader::parseModule(const std::vector<uint8_t> &).
parseModuleCode(Ldr, Code) ==
    LET Set == FVMgr_setCode(Code)
        Ldr1 == [Ldr EXCEPT !.FVMgr = Code]
        Res == loadBinary(Code)
    IN  IF ~Set.Ok
        THEN ParseFail(Ldr, Set.Err, 1, <<"FVMgr.setCode">>)
        ELSE IF Res.Ok
        THEN ParseDone(Ldr1, [Loaded |-> TRUE, Code |-> Code, Compiled |-> FALSE,
                              Ctor |-> "none"],
                       0, <<"FVMgr.setCode", "loadBinary">>)
        ELSE ParseFail(Ldr1, Res.Err, 1, <<"FVMgr.setCode", "loadBinary">>)

\* A version check with the comparison the wrong way round.
versionMismatch_Inverted(Version) == Version = kVersion

\* The version check of the ".so" branch.
versionMismatch(Version) == Version # kVersion

\* The ".so" branch with the result of loadCompiled not looked at: the
\* constructor is set and the module returned whatever it was.
parseCompiled_CompiledUnchecked(Ldr, Path, File) ==
    LET Set == LMgr_setPath(File)
        Ldr1 == [Ldr EXCEPT !.LMgr = Path]
        Ver == LMgr_getVersion(File)
        Code == LMgr_getWasm(File)
        Res == parseModuleCode(Ldr1, Code.Val)
        S1 == <<"LMgr.setPath">>
        S2 == S1 \o <<"getVersion">>
        S3 == S2 \o <<"getWasm">>
        S4 == S3 \o <<"parseModule">> \o Res.steps
        S5 == S4 \o <<"loadCompiled">>
    IN  IF ~Set.Ok THEN ParseFail(Ldr, Set.Err, 1, S1)
        ELSE IF Ver.Ok /\ versionMismatch(Ver.Val)
        THEN ParseFail(Ldr1, "InvalidVersion", 1, S2)
        ELSE IF ~Ver.Ok THEN ParseFail(Ldr1, Ver.Err, 1, S2)
        ELSE IF ~Code.Ok THEN ParseFail(Ldr1, Code.Err, 1, S3)
        ELSE IF ~Res.Ok THEN ParseFail(Res.Ldr, Res.Err, Res.logs + 1, S4)
        ELSE ParseDone(Res.Ldr, [Res.Mod EXCEPT !.Compiled = TRUE, !.Ctor = "ctor"],
                       Res.logs, S5 \o <<"setCtor">>)

\* The ".so" branch of Loader::parseModule(const std::string &).
parseCompiled(Ldr, Path, File) ==
    LET Set == LMgr_setPath(File)
        Ldr1 == [Ldr EXCEPT !.LMgr = Path]
        Ver == LMgr_getVersion(File)
        Code == LMgr_getWasm(File)
        Res == parseModuleCode(Ldr1, Code.Val)
        Cmp == loadCompiled(File)
        S1 == <<"LMgr.setPath">>
        S2 == S1 \o <<"getVersion">>
        S3 == S2 \o <<"getWasm">>
        S4 == S3 \o <<"parseModule">> \o Res.steps
        S5 == S4 \o <<"loadCompiled">>
    IN  IF ~Set.Ok THEN ParseFail(Ldr, Set.Err, 1, S1)
        ELSE IF Ver.Ok /\ versionMismatch(Ver.Val)
        THEN ParseFail(Ldr1, "InvalidVersion", 1, S2)
        ELSE IF ~Ver.Ok THEN ParseFail(Ldr1, Ver.Err, 1, S2)
        ELSE IF ~Code.Ok THEN ParseFail(Ldr1, Code.Err, 1, S3)
        ELSE IF ~Res.Ok THEN ParseFail(Res.Ldr, Res.Err, Res.logs + 1, S4)
        ELSE IF Cmp.Ok
        THEN ParseDone(Res.Ldr, [Res.Mod EXCEPT !.Compiled = TRUE, !.Ctor = "ctor"],
                       Res.logs, S5 \o <<"setCtor">>)
        ELSE ParseFail(Res.Ldr, Cmp.Err, Res.logs + 1, S5)

\* The other branch with the call of FSMgr.setPath left out: loadBinary reads
\* on from where FSMgr stands.
parseBinaryFile_NoSetPath(Ldr, Path, File) ==
    LET Load == FSMgr_loadBinary(Ldr.FSMgr)
        Ldr2 == [Ldr EXCEPT !.FSMgr = Load.Mgr]
    IN  IF Load.Res.Ok
        THEN ParseDone(Ldr2, [Loaded |-> TRUE, Code |-> Load.Read,
                              Compiled |-> FALSE, Ctor |-> "none"],
                       0, <<"FSMgr.setPath", "loadBinary">>)
        ELSE ParseFail(Ldr2, Load.Res.Err, 1, <<"FSMgr.setPath", "loadBinary">>)

\* The other branch of Loader::parseModule(const std::string &).
parseBinaryFile(Ldr, Path, File) ==
    LET Set == FSMgr_setPath(File)
        Ldr1 == [Ldr EXCEPT !.FSMgr = FSMgr_open(File)]
        Load == FSMgr_loadBinary(Ldr1.FSMgr)
        Ldr2 == [Ldr1 EXCEPT !.FSMgr = Load.Mgr]
    IN  IF ~Set.Ok THEN ParseFail(Ldr, Set.Err, 1, <<"FSMgr.setPath">>)
        ELSE IF Load.Res.Ok
        THEN ParseDone(Ldr2, [Loaded |-> TRUE, Code |-> Load.Read,
                              Compiled |-> FALSE, Ctor |-> "none"],
                       0, <<"FSMgr.setPath", "loadBinary">>)
        ELSE ParseFail(Ldr2, Load.Res.Err, 1, <<"FSMgr.setPath", "loadBinary">>)

parseModulePath(Ldr, Path, File) ==
    IF endsWith(Path, SoSuffix)
    THEN parseCompiled(Ldr, Path, File)
    ELSE parseBinaryFile(Ldr, Path, File)

\* The call parseModule(path), the path leading to File.
parseModule(Path, File) ==
    LET Res == parseModulePath(LdrMgr, Path, File)
    IN  /\ LdrMgr' = Res.Ldr
        /\ last' = [op |-> "parseModule", Path |-> Path, File |-> File,
                    reused |-> /\ LdrMgr.FSMgr.Pos > 0
                               /\ LdrMgr.FSMgr.Data # FileData(File),
                    err |-> Res.Err, Mod |-> Res.Mod, logs |-> Res.logs,
                    steps |-> Res.steps]

\* The call parseModule(bytes).
parseModuleBytes(Code) ==
    LET Res == parseModuleCode(LdrMgr, Code)
    IN  /\ LdrMgr' = Res.Ldr
        /\ last' = [op |-> "parseModuleCode", Code |-> Code, err |-> Res.Err,
                    Mod |-> Res.Mod, logs |-> Res.logs, steps |-> Res.steps]

----------------------------------------------------------------------------
(* Loader::loadFile. The file system is the environment: whether the       *)
(* stream opens, the size tellg reports at the end of the file, the number *)
(* of bytes the read delivers (gcount) and the eof bit after the read.     *)

\* The size of the largest file read, in bytes.
MaxFileSize == 2

\* The contents of a file of Size bytes: byte I is I.
FileContents(Size) == [I \in 1..Size |-> I]

\* The two error codes of a short read given the wrong way round.
loadFileShortRead_Swapped(Eof) == IF Eof THEN "ReadError" ELSE "EndOfFile"

\* The error code of a short read: by the eof bit of the stream.
loadFileShortRead(Eof) == IF Eof THEN "EndOfFile" ELSE "ReadError"

\* Buf is made Size bytes long, all zero; the read fills its first Gcount
\* bytes.
loadFileResult(Opens, Size, Gcount, Eof) ==
    LET Buf == [I \in 1..Size |->
                   IF I <= Gcount THEN FileContents(Size)[I] ELSE 0]
    IN  IF ~Opens
        THEN [Ok |-> FALSE, Err |-> "InvalidPath", Buf |-> <<>>, logs |-> 1]
        ELSE IF Gcount # Size
        THEN [Ok |-> FALSE, Err |-> loadFileShortRead(Eof), Buf |-> <<>>,
              logs |-> 1]
        ELSE [Ok |-> TRUE, Err |-> "Success", Buf |-> Buf, logs |-> 0]

\* The call loadFile(path).
loadFile(Opens, Size, Gcount, Eof) ==
    LET Res == loadFileResult(Opens, Size, Gcount, Eof)
    IN  /\ LdrMgr' = LdrMgr
        /\ last' = [op |-> "loadFile", Opens |-> Opens, Size |-> Size,
                    Gcount |-> Gcount, Eof |-> Eof, Ok |-> Res.Ok,
                    err |-> Res.Err, Buf |-> Res.Buf, logs |-> Res.logs]

----------------------------------------------------------------------------

Init ==
    /\ StoreMgr = EmptyStore
    /\ StackMgr = EmptyStack
    /\ InsMode = "Instantiate"
    /\ ObjModAddr = [O \in ImportObjects |-> NoAddr]
    /\ LdrMgr = [LMgr |-> <<>>, FSMgr |-> NoFile, FVMgr |-> <<>>]
    /\ last = [op |-> "none", err |-> "Success", logs |-> 0]

Next ==
    \/ \E Obj \in ImportObjects :
          registerModule(Obj) /\ UNCHANGED <<StackMgr, InsMode, LdrMgr>>
    \/ \E Mod \in Modules, Fail \in FailPoints :
          instantiateModule(Mod, "", Fail)
              /\ UNCHANGED <<StackMgr, ObjModAddr, LdrMgr>>
    \/ \E Mod \in Modules, Name \in ModNames, Fail \in FailPoints :
          registerModuleWasm(Mod, Name, Fail)
              /\ UNCHANGED <<StackMgr, ObjModAddr, LdrMgr>>
    \/ \E FuncAddr \in 0..Len(StoreMgr.FuncInsts), Params \in ArgLists,
          Traps \in BOOLEAN :
          invoke(FuncAddr, Params, Traps)
              /\ UNCHANGED <<StoreMgr, InsMode, ObjModAddr, LdrMgr>>

Spec == Init /\ [][Next]_vars

\* The decoder alone: every opcode byte is tried.
NextDecode ==
    \E Code \in Bytes :
        decodeOpCode(Code)
            /\ UNCHANGED <<StoreMgr, StackMgr, InsMode, ObjModAddr, LdrMgr>>

SpecDecode == Init /\ [][NextDecode]_vars

\* The loader alone: any path, leading to any file; any byte vector.
NextLoader ==
    \/ \E Path \in PathNames, File \in Files :
          parseModule(Path, File)
              /\ UNCHANGED <<StoreMgr, StackMgr, InsMode, ObjModAddr>>
    \/ \E Code \in Codes :
          parseModuleBytes(Code)
              /\ UNCHANGED <<StoreMgr, StackMgr, InsMode, ObjModAddr>>
    \/ \E Opens \in BOOLEAN, Size \in 0..MaxFileSize, Eof \in BOOLEAN :
          \E Gcount \in 0..Size :
              loadFile(Opens, Size, Gcount, Eof)
                  /\ UNCHANGED <<StoreMgr, StackMgr, InsMode, ObjModAddr>>

SpecLoader == Init /\ [][NextLoader]_vars

----------------------------------------------------------------------------
(* The claims.                                                             *)

\* The names of the modules registered in S: those outside the scratch region.
RegisteredNames(S) ==
    {S.ModInsts[I].Name : I \in 1..(Len(S.ModInsts) - S.NumMod)}

IsPrefix(P, Q) == Len(P) <= Len(Q) /\ P = SubSeq(Q, 1, Len(P))

\* C1: registerModule(store, importObject) fails with ModuleNameConflict
\* whenever the store already has a module registered under the import object's
\* name, whatever was registered before, and succeeds otherwise.
C1_NameConflict ==
    [][last'.op = "registerModule" =>
          last'.err = IF last'.Name \in RegisteredNames(StoreMgr)
                      THEN "ModuleNameConflict" ELSE "Success"]_vars

\* A conflict found with two modules registered before.
C1_Witness ==
    /\ last.op = "registerModule"
    /\ last.err = "ModuleNameConflict"
    /\ Len(StoreMgr.ModInsts) = 2
    /\ StoreMgr.ModInsts[1].Name = last.Name

\* C2: after an invoke that ends in a trap, the value stack and the frame stack
\* are empty when invoke returns.
C2_StacksEmptyAfterTrap ==
    (last.op = "invoke" /\ last.err = "ExecutionFailed") =>
        (StackMgr.Vals = <<>> /\ StackMgr.Frames = <<>>)

\* A trapped call that had arguments.
C2_Witness ==
    /\ last.op = "invoke"
    /\ last.err = "ExecutionFailed"
    /\ Len(last.Params) > 0

\* C3: invoke with an address outside the function pool returns
\* WrongInstanceAddress, before the parameter check and before any execution.
C3_WrongAddress ==
    (last.op = "invoke" /\ last.FuncAddr \notin 0..(Len(StoreMgr.FuncInsts) - 1)) =>
        (last.err = "WrongInstanceAddress" /\ last.steps = <<"getFunction">>)

\* A wrong address on a store that has functions, with arguments given.
C3_Witness ==
    /\ last.op = "invoke"
    /\ last.err = "WrongInstanceAddress"
    /\ Len(StoreMgr.FuncInsts) > 0
    /\ Len(last.Params) > 0

\* C4: invoke on a valid address with a number of arguments other than the
\* function type's parameter count returns FuncSigMismatch; runFunction is not
\* called and the stacks and the store stay as they were.
C4_SigMismatch ==
    [][(/\ last'.op = "invoke"
        /\ last'.FuncAddr \in 0..(Len(StoreMgr.FuncInsts) - 1)
        /\ Len(last'.Params) #
              Len(StoreMgr.FuncInsts[last'.FuncAddr + 1].FuncType.Params))
       => (/\ last'.err = "FuncSigMismatch"
           /\ \A I \in 1..Len(last'.steps) : last'.steps[I] # "runFunction"
           /\ StackMgr' = StackMgr
           /\ StoreMgr' = StoreMgr)]_vars

\* A call with more arguments than the function has parameters.
C4_Witness ==
    /\ last.op = "invoke"
    /\ last.err = "FuncSigMismatch"
    /\ Len(last.Params) >
          Len(StoreMgr.FuncInsts[last.FuncAddr + 1].FuncType.Params)

\* C5: parseModule of a path ending in ".so" fails with InvalidVersion whenever
\* the version read from the compiled file differs from kVersion; the embedded
\* payload is not parsed, loadCompiled is not called, no module is returned.
C5_InvalidVersion ==
    (/\ last.op = "parseModule"
     /\ endsWith(last.Path, SoSuffix)
     /\ LMgr_setPath(last.File).Ok
     /\ last.File.Version.Ok
     /\ last.File.Version.Val # kVersion)
    => (/\ last.err = "InvalidVersion"
        /\ last.Mod = NoModule
        /\ \A I \in 1..Len(last.steps) :
              last.steps[I] \notin {"getWasm", "parseModule", "loadBinary",
                                    "loadCompiled", "setCtor"})

\* A version mismatch on a compiled file whose payload and symbols are fine.
C5_Witness ==
    /\ last.op = "parseModule"
    /\ last.err = "InvalidVersion"
    /\ endsWith(last.Path, SoSuffix)
    /\ last.File.Kind = "so"
    /\ last.File.Wasm.Ok
    /\ loadBinary(last.File.Wasm.Val).Ok
    /\ last.File.Compiled.Ok

\* The instruction opcodes: the enumeration without End and Else.
InstrOpCodes == {OpCode[N] : N \in DOMAIN OpCode} \ {OpCode.End, OpCode.Else}

\* C6: every opcode byte that is not an instruction opcode (End and Else
\* included) is mapped to the void tag by dispatchInstruction and rejected with
\* InvalidOpCode; no node is made.
C6_UnknownOpCode ==
    (last.op = "makeInstructionNode" /\ last.Code \notin InstrOpCodes) =>
        (last.tag = "void" /\ last.err = "InvalidOpCode" /\ last.Node = <<>>)

\* End, an opcode of the enumeration that makes no node, is rejected.
C6_Witness ==
    /\ last.op = "makeInstructionNode"
    /\ last.Code = OpCode.End
    /\ last.err = "InvalidOpCode"

\* C7: every error that surfaces to the caller of parseModule is logged exactly
\* once, the ".so" path through parseModule(bytes) included.
C7_LoggedOnce ==
    (last.op \in {"parseModule", "parseModuleCode"} /\ last.err # "Success") =>
        last.logs = 1

\* Whether every address in Addrs is an address of Pool.
ValidAddrs(Addrs, Pool) ==
    \A I \in 1..Len(Addrs) : Addrs[I] \in 0..(Len(Pool) - 1)

\* Whether every export of Map names an index below Count.
ValidExports(Map, Count) == \A E \in Map : E[2] \in 0..(Count - 1)

\* C8: every function, table, memory and global address held by a module
\* instance of the store is an address of the corresponding pool, and every
\* export entry names an index below the module instance's count for its kind.
C8_AddressesValid ==
    \A I \in 1..Len(StoreMgr.ModInsts) :
        LET M == StoreMgr.ModInsts[I]
        IN  /\ ValidAddrs(M.FuncAddrs, StoreMgr.FuncInsts)
            /\ ValidAddrs(M.TabAddrs, StoreMgr.TabInsts)
            /\ ValidAddrs(M.MemAddrs, StoreMgr.MemInsts)
            /\ ValidAddrs(M.GlobAddrs, StoreMgr.GlobInsts)
            /\ ValidExports(M.ExpFuncs, Len(M.FuncAddrs))
            /\ ValidExports(M.ExpTables, Len(M.TabAddrs))
            /\ ValidExports(M.ExpMems, Len(M.MemAddrs))
            /\ ValidExports(M.ExpGlobals, Len(M.GlobAddrs))

\* Two import objects registered, the second with a function and a global whose
\* store addresses lie past its own counts.
C8_Witness ==
    /\ last.op = "registerModule"
    /\ last.err = "Success"
    /\ Len(StoreMgr.ModInsts) = 2
    /\ StoreMgr.NumMod = 0
    /\ StoreMgr.ModInsts[2].FuncAddrs # <<>>
    /\ StoreMgr.ModInsts[2].FuncAddrs[1] >= Len(StoreMgr.ModInsts[2].FuncAddrs)
    /\ StoreMgr.ModInsts[2].GlobAddrs # <<>>
    /\ StoreMgr.FuncInsts[StoreMgr.ModInsts[2].FuncAddrs[1] + 1].IsHost
    /\ StoreMgr.FuncInsts[1].IsHost

\* C9: when instantiateModule or registerModule(store, module, name) fails, the
\* pools hold no instance created by the failed call when it returns: each pool
\* is a prefix of what it was, and the registry is what it was.
C9_RolledBack ==
    [][(last'.op \in {"instantiateModule", "registerModuleWasm"}
        /\ last'.err # "Success")
       => (/\ IsPrefix(StoreMgr'.ModInsts, StoreMgr.ModInsts)
           /\ IsPrefix(StoreMgr'.FuncInsts, StoreMgr.FuncInsts)
           /\ IsPrefix(StoreMgr'.TabInsts, StoreMgr.TabInsts)
           /\ IsPrefix(StoreMgr'.MemInsts, StoreMgr.MemInsts)
           /\ IsPrefix(StoreMgr'.GlobInsts, StoreMgr.GlobInsts)
           /\ StoreMgr'.ModMap = StoreMgr.ModMap)]_vars

\* A failure after instances had been allocated, on a store that holds a
\* registered module.
C9_Witness ==
    /\ last.op \in {"instantiateModule", "registerModuleWasm"}
    /\ last.err = "AccessForbidMemoryArea"
    /\ last.added > 4
    /\ Len(StoreMgr.ModInsts) > 0

\* C10: an invoke that follows a trapped invoke returns exactly the callee's
\* results for its own arguments.
C10_UsableAfterTrap ==
    (last.op = "invoke" /\ last.err = "Success" /\ last.afterTrap) =>
        last.Returns =
            CalleeResults(StoreMgr.FuncInsts[last.FuncAddr + 1], last.Params)

\* A successful call right after a trapped one, with two results or more.
C10_Witness ==
    /\ last.op = "invoke"
    /\ last.err = "Success"
    /\ last.afterTrap
    /\ Len(last.Returns) >= 2

\* C11: loadFile reports the failure by its cause. A file that does not
\* open gives InvalidPath; a read that delivers fewer bytes than the size
\* of the file gives EndOfFile when the stream is at end of file and
\* ReadError when it is not; the byte buffer is returned exactly when the
\* read delivered the whole file, and then holds the file's contents.
C11_LoadFileErrors ==
    last.op = "loadFile" =>
        /\ (~last.Opens => last.err = "InvalidPath")
        /\ (last.Opens /\ last.Gcount < last.Size /\ last.Eof
                => last.err = "EndOfFile")
        /\ (last.Opens /\ last.Gcount < last.Size /\ ~last.Eof
                => last.err = "ReadError")
        /\ (last.Ok <=> last.Opens /\ last.Gcount = last.Size)
        /\ (last.Ok => last.err = "Success" /\ last.Buf = FileContents(last.Size))
        /\ (~last.Ok => last.err # "Success" /\ last.Buf = <<>>)

\* A file of two bytes that opened and whose read stopped after one byte
\* without reaching the end of the file.
C11_Witness ==
    /\ last.op = "loadFile"
    /\ last.Opens /\ last.Size = 2 /\ last.Gcount = 1 /\ ~last.Eof
    /\ last.err = "ReadError"

\* A byte vector that is a well-formed module of the model: the magic and
\* the version, nothing after them.
WellFormedWasm(Code) == Code = WasmMagic \o WasmVersion

\* C12: loading a well-formed Wasm binary through the file manager after
\* setPath returns Success whatever the manager loaded before: the load
\* starts at the first byte of the new file and the module holds that file.
C12_LoadAfterSetPath ==
    (/\ last.op = "parseModule"
     /\ ~endsWith(last.Path, SoSuffix)
     /\ last.File.Opens
     /\ WellFormedWasm(FileData(last.File)))
        => /\ last.err = "Success"
           /\ last.Mod.Loaded
           /\ last.Mod.Code = FileData(last.File)
           /\ LdrMgr.FSMgr = [Data |-> FileData(last.File), Pos |-> 8]

\* A well-formed file loaded through a manager that had read into another
\* file before.
C12_Witness ==
    /\ last.op = "parseModule"
    /\ ~endsWith(last.Path, SoSuffix)
    /\ last.File.Opens
    /\ WellFormedWasm(FileData(last.File))
    /\ last.reused
    /\ last.err = "Success"

\* The steps of a parse in the order of the code: of a path ending in ".so"
\* (the parse of the embedded Wasm being the two steps of parseModule on a
\* byte vector), of any other path, of a byte vector.
StepOrder(Op, Path) ==
    IF Op = "parseModuleCode" THEN <<"FVMgr.setCode", "loadBinary">>
    ELSE IF endsWith(Path, SoSuffix)
    THEN <<"LMgr.setPath", "getVersion", "getWasm", "parseModule",
           "FVMgr.setCode", "loadBinary", "loadCompiled", "setCtor">>
    ELSE <<"FSMgr.setPath", "loadBinary">>

\* The error code a step ends with on the input of the call L, "Success"
\* when it does not fail.
StepErr(L, Step) ==
    CASE Step = "LMgr.setPath" -> LMgr_setPath(L.File).Err
      [] Step = "getVersion" ->
            IF ~L.File.Version.Ok THEN L.File.Version.Err
            ELSE IF L.File.Version.Val # kVersion THEN "InvalidVersion"
            ELSE "Success"
      [] Step = "getWasm" -> L.File.Wasm.Err
      [] Step = "FVMgr.setCode" ->
            FVMgr_setCode(IF L.op = "parseModuleCode" THEN L.Code
                          ELSE L.File.Wasm.Val).Err
      [] Step = "FSMgr.setPath" -> FSMgr_setPath(L.File).Err
      [] Step = "loadBinary" ->
            loadBinary(IF L.op = "parseModuleCode" THEN L.Code
                       ELSE IF endsWith(L.Path, SoSuffix) THEN L.File.Wasm.Val
                       ELSE FileData(L.File)).Err
      [] Step = "loadCompiled" -> L.File.Compiled.Err
      [] OTHER -> "Success"

\* C13: a parse runs its steps in the fixed order and stops at the first
\* that fails: the steps taken are a prefix of the order, every step before
\* the last one taken succeeded, the error code returned is that of the last
\* step taken, and steps are left out only after a failure. A module is
\* returned only when all steps were taken and succeeded, and it has its
\* constructor only when loadCompiled succeeded.
C13_AbortAtFirstError ==
    last.op \in {"parseModule", "parseModuleCode"} =>
        LET Order == StepOrder(last.op, IF last.op = "parseModule"
                                        THEN last.Path ELSE <<>>)
            Steps == last.steps
            N == Len(Steps)
        IN  /\ N >= 1
            /\ IsPrefix(Steps, Order)
            /\ \A I \in 1..(N - 1) : StepErr(last, Steps[I]) = "Success"
            /\ last.err = StepErr(last, Steps[N])
            /\ (Steps # Order => last.err # "Success")
            /\ (last.Mod.Loaded <=> Steps = Order /\ last.err = "Success")
            /\ (last.Mod.Loaded /\ last.Mod.Ctor = "ctor"
                    => /\ \E I \in 1..N : Steps[I] = "loadCompiled"
                       /\ last.File.Compiled.Ok)

\* A compiled module whose embedded Wasm parsed and whose loadCompiled
\* failed: the parse stopped there, without the constructor.
C13_Witness ==
    /\ last.op = "parseModule"
    /\ endsWith(last.Path, SoSuffix)
    /\ last.steps = SubSeq(StepOrder("parseModule", last.Path), 1, 7)
    /\ last.err = "InvalidGrammar"
    /\ ~last.Mod.Loaded

\* C14: a successful invoke returns as many values as the function type has
\* results, in the order of the results (the deepest of them on the stack
\* first), and takes them off the value stack: the stack is again what it was
\* before the call.
C14_ReturnsPopped ==
    [][(last'.op = "invoke" /\ last'.err = "Success")
       => LET Func == StoreMgr.FuncInsts[last'.FuncAddr + 1]
              Results == CalleeResults(Func, last'.Params)
          IN  /\ Len(last'.Returns) = Len(Func.FuncType.Returns)
              /\ \A I \in 1..Len(last'.Returns) : last'.Returns[I] = Results[I]
              /\ StackMgr'.Vals = StackMgr.Vals
              /\ StackMgr'.Frames = StackMgr.Frames]_vars

\* A successful call of a function of one parameter and two results, whose
\* results differ.
C14_Witness ==
    /\ last.op = "invoke"
    /\ last.err = "Success"
    /\ Len(last.Params) = 1
    /\ Len(last.Returns) = 2
    /\ last.Returns[1] # last.Returns[2]
    /\ StackMgr.Vals = <<>>

\* The opcodes from First to Last in the numbering of the enumeration.
OpRange(First, Last) == {Code \in InstrOpCodes : First <= Code /\ Code <= Last}

\* The numeric opcodes of one operand: the tests for zero, the bit counts,
\* the float functions of one argument and the conversions.
UnaryOps ==
    {OpCode.I32__eqz, OpCode.I64__eqz}
    \cup OpRange(OpCode.I32__clz, OpCode.I32__popcnt)
    \cup OpRange(OpCode.I64__clz, OpCode.I64__popcnt)
    \cup OpRange(OpCode.F32__abs, OpCode.F32__sqrt)
    \cup OpRange(OpCode.F64__abs, OpCode.F64__sqrt)
    \cup OpRange(OpCode.I32__wrap_i64, OpCode.F64__reinterpret_i64)

\* The numeric opcodes of two operands: the comparisons and the arithmetic.
BinaryOps ==
    OpRange(OpCode.I32__eq, OpCode.I32__ge_u)
    \cup OpRange(OpCode.I64__eq, OpCode.I64__ge_u)
    \cup OpRange(OpCode.F32__eq, OpCode.F64__ge)
    \cup OpRange(OpCode.I32__add, OpCode.I32__rotr)
    \cup OpRange(OpCode.I64__add, OpCode.I64__rotr)
    \cup OpRange(OpCode.F32__add, OpCode.F32__copysign)
    \cup OpRange(OpCode.F64__add, OpCode.F64__copysign)

\* The variant the grouping by payload gives an opcode.
VariantOf(Code) ==
    CASE Code \in {OpCode.Unreachable, OpCode.Nop, OpCode.Return}
            -> "ControlInstruction"
      [] Code \in {OpCode.Block, OpCode.Loop} -> "BlockControlInstruction"
      [] Code = OpCode.If -> "IfElseControlInstruction"
      [] Code \in {OpCode.Br, OpCode.Br_if} -> "BrControlInstruction"
      [] Code = OpCode.Br_table -> "BrTableControlInstruction"
      [] Code \in {OpCode.Call, OpCode.Call_indirect} -> "CallControlInstruction"
      [] Code \in {OpCode.Drop, OpCode.Select} -> "ParametricInstruction"
      [] Code \in OpRange(OpCode.Local__get, OpCode.Global__set)
            -> "VariableInstruction"
      [] Code \in OpRange(OpCode.I32__load, OpCode.Memory__grow)
            -> "MemoryInstruction"
      [] Code \in OpRange(OpCode.I32__const, OpCode.F64__const)
            -> "ConstInstruction"
      [] Code \in UnaryOps -> "UnaryNumericInstruction"
      [] Code \in BinaryOps -> "BinaryNumericInstruction"
      [] OTHER -> "none"

\* The groups of case labels of the switch.
CaseGroups ==
    <<CasesControlInstruction, CasesBlockControlInstruction,
      CasesIfElseControlInstruction, CasesBrControlInstruction,
      CasesBrTableControlInstruction, CasesCallControlInstruction,
      CasesParametricInstruction, CasesVariableInstruction,
      CasesMemoryInstruction, CasesConstInstruction,
      CasesUnaryNumericInstruction, CasesBinaryNumericInstruction>>

\* C15: dispatchInstruction gives every opcode of the enumeration other than
\* End and Else one variant, the one of the grouping by payload: the opcode
\* is a case label of exactly one group of the switch, the tag is that of
\* the grouping, and a numeric opcode is unary or binary by its operands.
C15_VariantByGroup ==
    (last.op = "makeInstructionNode" /\ last.Code \in InstrOpCodes) =>
        /\ Cardinality({G \in DOMAIN CaseGroups : last.Code \in CaseGroups[G]}) = 1
        /\ last.tag # "void"
        /\ last.tag = VariantOf(last.Code)
        /\ UnaryOps \cap BinaryOps = {}

\* Memory__grow, the last of the memory opcodes, decoded as a memory
\* instruction.
C15_Witness ==
    /\ last.op = "makeInstructionNode"
    /\ last.Code = OpCode.Memory__grow
    /\ last.tag = "MemoryInstruction"

\* Pool P2 is pool P1 without its last N instances.
Dropped(P1, P2, N) == IsPrefix(P2, P1) /\ Len(P2) = Len(P1) - N

\* C16: a registerModule(store, importObject) that fails with
\* ModuleNameConflict adds nothing to the store. The registry is what it was;
\* each pool is what it was but for the pending instances of the scratch
\* region, which the reset before the name check removes; and every import
\* object's host functions keep the module address they had.
C16_ConflictAddsNothing ==
    [][(last'.op = "registerModule" /\ last'.err = "ModuleNameConflict")
       => (/\ StoreMgr'.ModMap = StoreMgr.ModMap
           /\ Dropped(StoreMgr.ModInsts, StoreMgr'.ModInsts, StoreMgr.NumMod)
           /\ Dropped(StoreMgr.FuncInsts, StoreMgr'.FuncInsts, StoreMgr.NumFunc)
           /\ Dropped(StoreMgr.TabInsts, StoreMgr'.TabInsts, StoreMgr.NumTab)
           /\ Dropped(StoreMgr.MemInsts, StoreMgr'.MemInsts, StoreMgr.NumMem)
           /\ Dropped(StoreMgr.GlobInsts, StoreMgr'.GlobInsts, StoreMgr.NumGlob)
           /\ (StoreMgr.NumMod = 0 /\ StoreMgr.NumFunc = 0
                   => StoreMgr' = StoreMgr)
           /\ ObjModAddr' = ObjModAddr)]_vars

\* A conflict met while an instantiated module was pending in the scratch
\* region, on a store whose registered module has host functions.
C16_Witness ==
    /\ last.op = "registerModule"
    /\ last.err = "ModuleNameConflict"
    /\ last.pending
    /\ Len(StoreMgr.FuncInsts) > 0
    /\ \E Obj \in ImportObjects : ObjModAddr[Obj] # NoAddr

\* C17: on a valid address invoke returns FuncSigMismatch exactly when the
\* number of arguments differs from the number of parameters of the function
\* type. The value types of the arguments play no part: with the right
\* number of arguments, of whatever types, the call goes on to runFunction.
C17_CountOnly ==
    (last.op = "invoke" /\ last.FuncAddr \in 0..(Len(StoreMgr.FuncInsts) - 1)) =>
        LET FuncType == StoreMgr.FuncInsts[last.FuncAddr + 1].FuncType
        IN  /\ last.err = "FuncSigMismatch"
                <=> Len(last.Params) # Len(FuncType.Params)
            /\ Len(last.Params) = Len(FuncType.Params)
                => \E I \in 1..Len(last.steps) : last.steps[I] = "runFunction"

\* A call whose argument is an f64 where the parameter is another type, and
\* which ran the function to its end.
C17_Witness ==
    /\ last.op = "invoke"
    /\ last.FuncAddr \in 0..(Len(StoreMgr.FuncInsts) - 1)
    /\ Len(last.Params) = 1
    /\ Len(StoreMgr.FuncInsts[last.FuncAddr + 1].FuncType.Params) = 1
    /\ last.Params[1].Type = "f64"
    /\ StoreMgr.FuncInsts[last.FuncAddr + 1].FuncType.Params[1] # "f64"
    /\ last.steps[Len(last.steps)] = "runFunction"
    /\ last.err = "Success"

====
